---------------------------- MODULE Spec2Model ----------------------------
(***************************************************************************)
(* ProdVent server (src/index.js, and the earlier variant                  *)
(* src/unnamed/part_000): an Express application whose handlers each issue *)
(* one or two queries against the MongoDB collections products, users and  *)
(* reviews.                                                                *)
(*                                                                         *)
(* The collections are the state.  A handler without an await between its  *)
(* store calls is one action; a handler that reads, awaits and then writes *)
(* is modelled both as one action (requests handled one after the other)   *)
(* and as one action per store call (requests handled concurrently).       *)
(***************************************************************************)
EXTENDS Integers, Sequences, FiniteSets, TLC

(***************************************************************************)
(* Bounds of the model.                                                    *)
(***************************************************************************)
\* products ever inserted by POST /add-product
MaxProducts == 1
\* concurrently handled requests
NumClients == 2
\* requests started in a concurrent run
MaxRequests == 4

(***************************************************************************)
(* Inputs.                                                                 *)
(***************************************************************************)
Emails == {"a@x.com", "b@y.com"}

\* a value JavaScript leaves undefined (an absent body or document field)
Undefined == "undefined"

\* ObjectIds: 1..MaxProducts are the ones the driver generates on insertOne,
\* UnknownId is a well-formed ObjectId the driver never generated, and
\* MalformedId is a string `new ObjectId(id)` throws on.
UnknownId == MaxProducts + 1
MalformedId == MaxProducts + 2
ObjectIds == 1..UnknownId

Clients == 1..NumClients

VARIABLES
  products,   \* productsColl: ObjectId -> document, NoDoc where none is stored
  nextId,     \* the next ObjectId insertOne generates for productsColl
  users,      \* usersColl: the documents in insertion order
  reviews,    \* reviewsColl: the documents in insertion order
  last,       \* the last request handled to completion, with its response
  req,        \* per client: the request being handled concurrently
  started     \* number of requests started in a concurrent run

vars == <<products, nextId, users, reviews, last, req, started>>

(***************************************************************************)
(* Documents of productsColl.  `has` is the set of fields the document     *)
(* holds; a field outside `has` reads as undefined in JavaScript and keeps *)
(* a filler value here.                                                    *)
(***************************************************************************)
ProductFields ==
  {"_id", "name", "vote", "likedUsers", "addedBy", "report", "reportedBy",
   "status", "type"}

NoDoc ==
  [has |-> {}, name |-> Undefined, vote |-> 0, likedUsers |-> <<>>, addedBy |-> Undefined,
   report |-> 0, reportedBy |-> <<>>, status |-> Undefined, type |-> Undefined]

\* Array.prototype.includes on an array of strings
Includes(arr, v) == \E i \in 1..Len(arr) : arr[i] = v

\* the elements of an array, as a set
Elems(arr) == {arr[i] : i \in 1..Len(arr)}

(***************************************************************************)
(* Update operators of the store, as MongoDB applies them to one document. *)
(* An operator is [op, field, by, value]: `by` is $inc's amount, `value`   *)
(* the operand of $set, $addToSet and $pull.                               *)
(***************************************************************************)
Inc(f, n) == [op |-> "$inc", field |-> f, by |-> n, value |-> Undefined]
AddToSet(f, v) == [op |-> "$addToSet", field |-> f, by |-> 0, value |-> v]
Pull(f, v) == [op |-> "$pull", field |-> f, by |-> 0, value |-> v]
Set(f, v) == [op |-> "$set", field |-> f, by |-> 0, value |-> v]

\* $pull: every element equal to v is removed; an absent field stays absent
PullFrom(arr, v) == SelectSeq(arr, LAMBDA x : x # v)

\* $addToSet: v is appended unless the array holds it
AddTo(arr, v) == IF Includes(arr, v) THEN arr ELSE Append(arr, v)

ApplyOp(doc, o) ==
  CASE o.op = "$inc" ->
         [doc EXCEPT ![o.field] = (IF o.field \in doc.has THEN @ ELSE 0) + o.by,
                     !.has = @ \cup {o.field}]
    [] o.op = "$addToSet" ->
         [doc EXCEPT ![o.field] = IF o.field \in doc.has THEN AddTo(@, o.value)
                                                         ELSE <<o.value>>,
                     !.has = @ \cup {o.field}]
    [] o.op = "$pull" ->
         IF o.field \in doc.has
           THEN [doc EXCEPT ![o.field] = PullFrom(@, o.value)]
           ELSE doc
    [] o.op = "$set" ->
         [doc EXCEPT ![o.field] = o.value, !.has = @ \cup {o.field}]

RECURSIVE ApplyUpdate(_, _)
ApplyUpdate(doc, updateDoc) ==
  IF updateDoc = <<>> THEN doc
  ELSE ApplyUpdate(ApplyOp(doc, Head(updateDoc)), Tail(updateDoc))

\* productsColl.findOne({ _id }): the document, or null
FindOne(coll, id) == coll[id]
IsNull(doc) == "_id" \notin doc.has

\* productsColl.updateOne({ _id }, updateDoc, { upsert }): the collection after
\* it and the driver's result.  With upsert and no match the store inserts a
\* document made of the query's _id and the update applied to it.
UpdateOne(coll, id, updateDoc, upsert) ==
  IF ~IsNull(coll[id])
    THEN LET doc == ApplyUpdate(coll[id], updateDoc) IN
         [coll |-> [coll EXCEPT ![id] = doc], matchedCount |-> 1,
          modifiedCount |-> IF doc = coll[id] THEN 0 ELSE 1, upsertedCount |-> 0]
    ELSE IF upsert
      THEN [coll |-> [coll EXCEPT ![id] =
                        ApplyUpdate([NoDoc EXCEPT !.has = {"_id"}], updateDoc)],
            matchedCount |-> 0, modifiedCount |-> 0, upsertedCount |-> 1]
      ELSE [coll |-> coll, matchedCount |-> 0, modifiedCount |-> 0,
            upsertedCount |-> 0]

\* productsColl.deleteOne({ _id })
DeleteOne(coll, id) == [coll EXCEPT ![id] = NoDoc]

(***************************************************************************)
(* Requests and responses.  A completed request is recorded with the route,*)
(* its parameters, the HTTP status, the message (or kind of body) sent,    *)
(* the product document sent in the body (NoDoc where none is),            *)
(* `before`: the document the :id parameter named when the request began,  *)
(* `calls`: the store calls the handler made, in order,                    *)
(* `header` and `sent`: the Authorization header of a request to a         *)
(* protected route and the ids of the products its response lists, and     *)
(* `repeat`: whether the request before it was the same request.           *)
(***************************************************************************)
\* a token: the payload's email, the key it was signed with, and whether its
\* expiry has passed
NoToken == [email |-> Undefined, sig |-> "none", expired |-> FALSE]

\* an Authorization header: absent, or `words` space-separated words of which
\* the second is `token`
NoHeader == [present |-> FALSE, words |-> 0, token |-> NoToken]

Done(route, id, email, status, message, product, before, calls) ==
  [route |-> route, id |-> id, email |-> email, status |-> status,
   message |-> message, product |-> product, before |-> before,
   calls |-> calls, header |-> NoHeader, sent |-> {},
   repeat |-> (last.route = route /\ last.id = id /\ last.email = email)]

NoRequest ==
  [route |-> "none", id |-> UnknownId, email |-> Undefined, status |-> 0,
   message |-> "", product |-> NoDoc, before |-> NoDoc, calls |-> <<>>,
   header |-> NoHeader, sent |-> {}, repeat |-> FALSE]

Idle ==
  [pc |-> "idle", route |-> "none", id |-> UnknownId, email |-> Undefined,
   updateDoc |-> <<>>, status |-> 0, message |-> ""]

Init ==
  /\ products = [i \in ObjectIds |-> NoDoc]
  /\ nextId = 1
  /\ users = <<>>
  /\ reviews = <<>>
  /\ last = NoRequest
  /\ req = [c \in Clients |-> Idle]
  /\ started = 0

\* the ids a client can send: those of products inserted so far, an id the
\* driver never generated, and a malformed one
RequestIds == {i \in 1..MaxProducts : i < nextId} \cup {UnknownId, MalformedId}

(***************************************************************************)
(* POST /add-product                                                       *)
(***************************************************************************)
\* the bodies a client posts: each required field present or missing
ProductBodies ==
  [productName : {"", "X"}, productImage : {"", "img"},
   productDescription : {"", "d"}, userEmail : Emails \cup {""}]

MissingRequired(body) ==
  \/ body.productName = ""
  \/ body.productImage = ""
  \/ body.productDescription = ""
  \/ body.userEmail = ""

NewProduct(body) ==
  [has |-> ProductFields, name |-> body.productName, vote |-> 0,
   likedUsers |-> <<>>,
   addedBy |-> body.userEmail, report |-> 0, reportedBy |-> <<>>,
   status |-> "pending", type |-> "regular"]

AddProduct(body) ==
  /\ IF MissingRequired(body)
       THEN /\ last' = Done("add-product", UnknownId, body.userEmail, 400,
                            "Missing required fields", NoDoc, NoDoc, <<>>)
            /\ UNCHANGED <<products, nextId>>
       ELSE /\ nextId <= MaxProducts
            /\ products' = [products EXCEPT ![nextId] = NewProduct(body)]
            /\ nextId' = nextId + 1
            /\ last' = Done("add-product", nextId, body.userEmail, 200,
                            "insertResult", NoDoc, NoDoc, <<"insertOne">>)
  /\ UNCHANGED <<users, reviews, req, started>>

(***************************************************************************)
(* PATCH /product/upvote/:id and PATCH /product/report/:id                 *)
(***************************************************************************)
\* the update of a handler that never looks at likedUsers
UpvoteAlwaysAdds(product, email) ==
  <<Inc("vote", 1), AddToSet("likedUsers", email)>>

\* lines 143-153: the update chosen from the document findOne returned
UpvoteUpdateDoc(product, email) ==
  IF Includes(product.likedUsers, email)
    THEN <<Inc("vote", -1), Pull("likedUsers", email)>>
    ELSE <<Inc("vote", 1), AddToSet("likedUsers", email)>>

\* lines 182-192
ReportUpdateDoc(product, email) ==
  IF Includes(product.reportedBy, email)
    THEN <<Inc("report", -1), Pull("reportedBy", email)>>
    ELSE <<Inc("report", 1), AddToSet("reportedBy", email)>>

ToggleUpdateDoc(route, product, email) ==
  IF route = "upvote" THEN UpvoteUpdateDoc(product, email)
                      ELSE ReportUpdateDoc(product, email)

\* a handler that reads the array with optional chaining never throws
ThrowsNever(product, arrayField) == FALSE

\* `product.likedUsers.includes` throws a TypeError when findOne returned null
\* or the document holds no such array; the catch block answers 500.
Throws(product, arrayField) == IsNull(product) \/ arrayField \notin product.has

\* One toggle request handled with no other request in between.
Toggle(route, arrayField, failed, caught, updated, id, email) ==
  /\ IF id = MalformedId
       THEN /\ last' = Done(route, id, email, 500, caught, NoDoc, NoDoc, <<>>)
            /\ UNCHANGED products
       ELSE LET product == FindOne(products, id) IN
            IF Throws(product, arrayField)
              THEN /\ last' = Done(route, id, email, 500, caught, NoDoc, product,
                                        <<"findOne">>)
                   /\ UNCHANGED products
              ELSE LET result == UpdateOne(products, id,
                                           ToggleUpdateDoc(route, product, email), TRUE) IN
                   /\ products' = result.coll
                   /\ last' = IF result.modifiedCount = 0
                                THEN Done(route, id, email, 500, failed, NoDoc, product,
                                          <<"findOne", "updateOne">>)
                                ELSE Done(route, id, email, 200, updated,
                                          FindOne(result.coll, id), product,
                                          <<"findOne", "updateOne", "findOne">>)
  /\ UNCHANGED <<nextId, users, reviews, req, started>>

UpvoteProduct(id, email) ==
  Toggle("upvote", "likedUsers", "Failed to update vote",
         "Failed to upvote product", "Vote updated", id, email)

ReportProduct(id, email) ==
  Toggle("report", "reportedBy", "Failed to update report",
         "Failed to report product", "Report updated", id, email)

(***************************************************************************)
(* DELETE /delete-product/:id                                              *)
(***************************************************************************)
DeleteProduct(id) ==
  /\ IF id = MalformedId
       THEN /\ last' = Done("delete-product", id, Undefined, 500,
                            "Failed to delete my products", NoDoc, NoDoc, <<>>)
            /\ UNCHANGED products
       ELSE /\ products' = DeleteOne(products, id)
            /\ last' = Done("delete-product", id, Undefined, 200, "deleteResult",
                            NoDoc, products[id], <<"deleteOne">>)
  /\ UNCHANGED <<nextId, users, reviews, req, started>>

(***************************************************************************)
(* Votes and reports, requests handled one after the other.                *)
(***************************************************************************)
\* one owner posts the products here; who owns a product plays no part in a toggle
ToggleBodies == {b \in ProductBodies : b.userEmail \in {"", "a@x.com"}}

NextToggle ==
  \/ \E body \in ToggleBodies : AddProduct(body)
  \/ \E id \in RequestIds, email \in Emails : UpvoteProduct(id, email)
  \/ \E id \in RequestIds, email \in Emails : ReportProduct(id, email)
  \/ \E id \in RequestIds : DeleteProduct(id)

SpecToggle == Init /\ [][NextToggle]_vars

\* the products POST /add-product inserted (the only handler that sets addedBy)
Added == {i \in ObjectIds : "addedBy" \in products[i].has}

\* C1: after any sequence of completed, non-overlapping vote and report
\* toggles, every product inserted by POST /add-product has vote equal to the
\* number of entries of likedUsers and report equal to the number of entries
\* of reportedBy.
C1_CountsMatchArrays ==
  \A i \in Added :
    /\ products[i].vote = Len(products[i].likedUsers)
    /\ products[i].report = Len(products[i].reportedBy)

\* both actors have voted, one has reported, and the last request was a toggle
C1_Witness ==
  /\ last.route \in {"upvote", "report"}
  /\ last.status = 200
  /\ \E i \in Added : products[i].vote = 2 /\ products[i].report = 1

\* C3: an upvote of an existing product flips the actor's membership of
\* likedUsers and moves vote by exactly 1 in the matching direction; the same
\* upvote directly after it gives back the vote count and the members of
\* likedUsers the product had before the first.
C3_UpvoteTwiceRestores ==
  [][(last'.route = "upvote" /\ last'.id \in Added)
       => LET id == last'.id
              e == last'.email
              was == Includes(products[id].likedUsers, e)
          IN /\ last'.status = 200
             /\ Includes(products'[id].likedUsers, e) = ~was
             /\ products'[id].vote = products[id].vote + (IF was THEN -1 ELSE 1)
             /\ (last.route = "upvote" /\ last.id = id /\ last.email = e)
                  => /\ products'[id].vote = last.before.vote
                     /\ Elems(products'[id].likedUsers) = Elems(last.before.likedUsers)
                     /\ last'.product.vote = last.before.vote]_vars

\* the second of two upvotes in succession by an actor who, before the first,
\* was a voter among others
C3_Witness ==
  /\ last.route = "upvote"
  /\ last.repeat
  /\ last.status = 200
  /\ Includes(products[last.id].likedUsers, last.email)
  /\ products[last.id].vote = 2

\* C9: a vote or report toggle whose :id names no stored product fails (the
\* handler's catch answers 500), issues no write, and leaves the products
\* collection as it was.
C9_ToggleOfMissingFails ==
  [][(/\ last'.route \in {"upvote", "report"}
      /\ (last'.id = MalformedId \/ IsNull(products[last'.id])))
       => /\ last'.status = 500
          /\ last'.message \in {"Failed to upvote product", "Failed to report product"}
          /\ \A k \in 1..Len(last'.calls) : last'.calls[k] = "findOne"
          /\ products' = products]_vars

\* a toggle of an id that names nothing, while a product is stored
C9_Witness ==
  /\ last.route = "upvote"
  /\ last.id = UnknownId
  /\ last.status = 500
  /\ Added # {}

(***************************************************************************)
(* PATCH /accept-product/:id, /reject-product/:id and /featured/:id        *)
(***************************************************************************)
\* a reject handler pasted from the accept handler and left unedited
RejectSetsAccepted == <<Set("status", "accepted")>>

AcceptUpdateDoc == <<Set("status", "accepted")>>
RejectUpdateDoc == <<Set("status", "rejected")>>
FeaturedUpdateDoc == <<Set("type", "featured")>>

\* updateOne(query, updateDoc, { upsert: true }) and res.send(result)
Moderate(route, updateDoc, id) ==
  /\ IF id = MalformedId
       THEN /\ last' = Done(route, id, Undefined, 500, "Error updating", NoDoc, NoDoc,
                            <<>>)
            /\ UNCHANGED products
       ELSE LET result == UpdateOne(products, id, updateDoc, TRUE) IN
            /\ products' = result.coll
            /\ last' = Done(route, id, Undefined, 200, "updateResult", NoDoc,
                            products[id], <<"updateOne">>)
  /\ UNCHANGED <<nextId, users, reviews, req, started>>

AcceptProduct(id) == Moderate("accept-product", AcceptUpdateDoc, id)
RejectProduct(id) == Moderate("reject-product", RejectUpdateDoc, id)
MakeFeatured(id) == Moderate("featured", FeaturedUpdateDoc, id)

(***************************************************************************)
(* Moderation, requests handled one after the other.                       *)
(***************************************************************************)
NextModeration ==
  \/ \E body \in ToggleBodies : AddProduct(body)
  \/ \E id \in RequestIds : AcceptProduct(id)
  \/ \E id \in RequestIds : RejectProduct(id)
  \/ \E id \in RequestIds : MakeFeatured(id)
  \/ \E id \in RequestIds : DeleteProduct(id)

SpecModeration == Init /\ [][NextModeration]_vars

\* the status a moderation route sets
StatusOf(route) == IF route = "accept-product" THEN "accepted" ELSE "rejected"

\* C7: from any prior status of a stored product, accept answers 200 and sets
\* status to accepted, reject answers 200 and sets status to rejected, nothing
\* else of the product changes, and a transition to the status the product
\* already has leaves the collection as it was; so the status is always the
\* one the last of these calls set.
C7_ModerationUnconditional ==
  [][(/\ last'.route \in {"accept-product", "reject-product"}
      /\ last'.id \in ObjectIds
      /\ ~IsNull(products[last'.id]))
       => LET id == last'.id IN
          /\ last'.status = 200
          /\ products' = [products EXCEPT ![id].status = StatusOf(last'.route),
                                          ![id].has = @ \cup {"status"}]
          /\ products[id].status = StatusOf(last'.route) => products' = products]_vars

\* a rejected product inserted by POST /add-product has been accepted again
C7_Witness ==
  /\ last.route = "accept-product"
  /\ last.status = 200
  /\ last.id \in Added
  /\ last.before.status = "rejected"
  /\ products[last.id].status = "accepted"

(***************************************************************************)
(* PATCH /update-product/:id                                               *)
(***************************************************************************)
\* the names a client sends in req.body.productName
ProductNames == {"X", "Y"}

\* lines 384-393; of the fields it sets, the document here holds name
UpdateProductDoc(product) == <<Set("name", product.productName)>>

\* updateOne(query, updateProduct) with no upsert, and res.send(result)
UpdateProduct(id, product) ==
  /\ IF id = MalformedId
       THEN /\ last' = Done("update-product", id, Undefined, 500, "Error updating",
                            NoDoc, NoDoc, <<>>)
            /\ UNCHANGED products
       ELSE LET result == UpdateOne(products, id, UpdateProductDoc(product), FALSE) IN
            /\ products' = result.coll
            /\ last' = Done("update-product", id, Undefined, 200, "updateResult",
                            NoDoc, products[id], <<"updateOne">>)
  /\ UNCHANGED <<nextId, users, reviews, req, started>>

(***************************************************************************)
(* Every route that writes productsColl, requests handled one after the    *)
(* other.                                                                  *)
(***************************************************************************)
NextLifecycle ==
  \/ \E body \in {b \in ToggleBodies : ~MissingRequired(b)} : AddProduct(body)
  \/ \E id \in RequestIds : AcceptProduct(id)
  \/ \E id \in RequestIds : RejectProduct(id)
  \/ \E id \in RequestIds : MakeFeatured(id)
  \/ \E id \in RequestIds, email \in Emails : UpvoteProduct(id, email)
  \/ \E id \in RequestIds : ReportProduct(id, "a@x.com")
  \/ \E id \in RequestIds, name \in ProductNames :
       UpdateProduct(id, [productName |-> name])
  \/ \E id \in RequestIds : DeleteProduct(id)

SpecLifecycle == Init /\ [][NextLifecycle]_vars

\* the ids that name a stored document
Stored == {i \in ObjectIds : ~IsNull(products[i])}

\* C11: every document of the products collection was inserted by
\* POST /add-product and so holds every field of newProduct: no accept,
\* reject, featured, vote toggle, report toggle or update adds a document,
\* also when its :id names no stored product.
C11_OnlyAddProductInserts ==
  \A i \in Stored : i \in Added /\ products[i].has = ProductFields


(***************************************************************************)
(* The earlier PATCH /product/upvote/:id (src/unnamed/part_000, lines      *)
(* 77-101): an actor likes a product once.  That server has no route that  *)
(* inserts a product; the documents it reads are those of the same         *)
(* products collection, as POST /add-product inserts them.                 *)
(***************************************************************************)
\* a handler that never finds the actor among likedUsers
AlreadyLikedNever(product, email) == FALSE

\* line 85
AlreadyLiked(product, email) == Includes(product.likedUsers, email)

\* lines 91-94
LikeUpdateDoc(email) == <<Inc("vote", 1), AddToSet("likedUsers", email)>>

LikeProduct(id, email) ==
  /\ IF id = MalformedId
       THEN /\ last' = Done("upvote-once", id, email, 500,
                            "Failed to upvote product", NoDoc, NoDoc, <<>>)
            /\ UNCHANGED products
       ELSE LET product == FindOne(products, id) IN
            IF Throws(product, "likedUsers")
              THEN /\ last' = Done("upvote-once", id, email, 500,
                                   "Failed to upvote product", NoDoc, product,
                                   <<"findOne">>)
                   /\ UNCHANGED products
              ELSE IF AlreadyLiked(product, email)
                THEN /\ last' = Done("upvote-once", id, email, 200,
                                     "already liked", NoDoc, product,
                                     <<"findOne">>)
                     /\ UNCHANGED products
                ELSE LET result == UpdateOne(products, id, LikeUpdateDoc(email),
                                             TRUE) IN
                     /\ products' = result.coll
                     /\ last' = Done("upvote-once", id, email, 200,
                                     "updateResult", NoDoc, product,
                                     <<"findOne", "updateOne">>)
  /\ UNCHANGED <<nextId, users, reviews, req, started>>

\* the actors of this variant's requests
LikeEmails == Emails \cup {"c@z.com"}

NextLikeOnce ==
  \/ \E body \in ToggleBodies : AddProduct(body)
  \/ \E id \in RequestIds, email \in LikeEmails : LikeProduct(id, email)

SpecLikeOnce == Init /\ [][NextLikeOnce]_vars

\* C12: in the like-once variant, an upvote by an actor already in likedUsers
\* answers 'already liked' and leaves the product as it was; an upvote by a
\* new actor appends the actor and increments vote by 1; so vote never
\* decreases, each actor raises it at most once, and vote is the number of
\* distinct actors added.
C12_LikeOnce ==
  [][(last'.route = "upvote-once" /\ last'.id \in Added)
       => LET id == last'.id
              e == last'.email
              was == Includes(products[id].likedUsers, e)
          IN /\ last'.status = 200
             /\ was => last'.message = "already liked" /\ products' = products
             /\ ~was => /\ products'[id].likedUsers = Append(products[id].likedUsers, e)
                        /\ products'[id].vote = products[id].vote + 1
             /\ products'[id].vote >= products[id].vote
             /\ Len(products'[id].likedUsers) = Cardinality(Elems(products'[id].likedUsers))
             /\ products'[id].vote = Cardinality(Elems(products'[id].likedUsers))]_vars

\* every actor has liked the product and one of them asks again
C12_Witness ==
  /\ last.route = "upvote-once"
  /\ last.message = "already liked"
  /\ last.id \in Added
  /\ products[last.id].vote = Cardinality(LikeEmails)

(***************************************************************************)
(* POST /product/:id/reviews                                               *)
(***************************************************************************)
\* :id is stored as the string it is: every path id is accepted
PathIds == 1..MalformedId

\* the author emails a review or user body carries; a body without the field
\* is sent to the store as null and matches like any other value
BodyEmails == Emails \cup {Undefined}

NoReview == [email |-> Undefined, productId |-> MalformedId, stored |-> FALSE]

\* findOne returns the first document, in insertion order, that matches
Lowest(ks) == CHOOSE k \in ks : \A j \in ks : k <= j

\* a handler that looks for no earlier review
FindReviewNever(coll, review, id) == NoReview

\* line 215: reviewsColl.findOne({ email: review.email })
FindReview(coll, review, id) ==
  LET hits == {k \in 1..Len(coll) : coll[k].email = review.email} IN
  IF hits = {} THEN NoReview ELSE coll[Lowest(hits)]

\* lines 222-229
NewReview(review, id) ==
  [email |-> review.email, productId |-> id, stored |-> TRUE]

PostReview(id, review) ==
  /\ LET filterReview == FindReview(reviews, review, id) IN
     IF filterReview.stored
       THEN /\ last' = Done("review", id, review.email, 200, "already reviewed",
                            NoDoc, NoDoc, <<"findOne">>)
            /\ UNCHANGED reviews
       ELSE /\ reviews' = Append(reviews, NewReview(review, id))
            /\ last' = Done("review", id, review.email, 200, "insertResult",
                            NoDoc, NoDoc, <<"findOne", "insertOne">>)
  /\ UNCHANGED <<products, nextId, users, req, started>>

NextReviews ==
  \E id \in PathIds, email \in BodyEmails : PostReview(id, [email |-> email])

SpecReviews == Init /\ [][NextReviews]_vars

\* the reviews of coll for product id by author email
ReviewsOf(coll, id, email) ==
  {k \in 1..Len(coll) : coll[k].productId = id /\ coll[k].email = email}

\* C4: the reviews collection holds at most one review per pair of product id
\* and author email, and a submission for a pair that already has a review
\* is answered 'already reviewed' and leaves the collection as it was.
C4_OneReviewPerPair ==
  [][last'.route = "review"
       => /\ \A id \in PathIds, e \in BodyEmails :
               Cardinality(ReviewsOf(reviews', id, e)) <= 1
          /\ ReviewsOf(reviews, last'.id, last'.email) # {}
               => /\ last'.message = "already reviewed"
                  /\ reviews' = reviews]_vars

\* a second submission by the author of a stored review of the same product
C4_Witness ==
  /\ last.route = "review"
  /\ last.message = "already reviewed"
  /\ ReviewsOf(reviews, last.id, last.email) # {}
  /\ Len(reviews) >= 2

\* C8: a submission by an author with no review of this product inserts one
\* review with productId = :id, also when the author has reviewed another
\* product.
C8_ReviewInsertedUnlessSamePair ==
  [][(last'.route = "review" /\ ReviewsOf(reviews, last'.id, last'.email) = {})
       => /\ reviews' = Append(reviews, NewReview([email |-> last'.email], last'.id))
          /\ last'.message = "insertResult"]_vars

(***************************************************************************)
(* POST /user, PATCH /user/verify/:email, PATCH /users/:email/role         *)
(***************************************************************************)
Roles == {"admin", "moderator"}

NoUser == [email |-> Undefined, status |-> Undefined, role |-> Undefined,
           stored |-> FALSE]

\* a handler that looks for no stored user
FindUserNever(coll, email) == NoUser

\* the stored users with this email
UsersOf(coll, email) == {k \in 1..Len(coll) : coll[k].email = email}

\* usersColl.findOne({ email })
FindUser(coll, email) ==
  IF UsersOf(coll, email) = {} THEN NoUser ELSE coll[Lowest(UsersOf(coll, email))]

\* the document insertOne(user) stores for a body { email }
NewUser(email) ==
  [email |-> email, status |-> Undefined, role |-> Undefined, stored |-> TRUE]

\* usersColl.updateOne({ email }, { $set: { [field]: value } }, { upsert: true })
UsersUpdateOne(coll, email, field, value) ==
  IF FindUser(coll, email).stored
    THEN [coll EXCEPT ![Lowest(UsersOf(coll, email))][field] = value]
    ELSE Append(coll, [NewUser(email) EXCEPT ![field] = value])

CreateUser(email) ==
  /\ LET isUserExist == FindUser(users, email) IN
     IF isUserExist.stored
       THEN /\ last' = Done("user", UnknownId, email, 200, "User already exists",
                            NoDoc, NoDoc, <<"findOne">>)
            /\ UNCHANGED users
       ELSE /\ users' = Append(users, NewUser(email))
            /\ last' = Done("user", UnknownId, email, 200, "insertResult",
                            NoDoc, NoDoc, <<"findOne", "insertOne">>)
  /\ UNCHANGED <<products, nextId, reviews, req, started>>

VerifyUser(email) ==
  /\ users' = UsersUpdateOne(users, email, "status", "verified")
  /\ last' = Done("verify", UnknownId, email, 200, "updateResult", NoDoc, NoDoc,
                  <<"updateOne">>)
  /\ UNCHANGED <<products, nextId, reviews, req, started>>

SetRole(email, role) ==
  /\ users' = UsersUpdateOne(users, email, "role", role)
  /\ last' = Done("role", UnknownId, email, 200, "updateResult", NoDoc, NoDoc,
                  <<"updateOne">>)
  /\ UNCHANGED <<products, nextId, reviews, req, started>>

NextUsers ==
  \/ \E email \in BodyEmails : CreateUser(email)
  \/ \E email \in Emails : VerifyUser(email)
  \/ \E email \in Emails, role \in Roles : SetRole(email, role)

SpecUsers == Init /\ [][NextUsers]_vars

\* C5: POST /user for an email with no stored user inserts one; a second
\* POST /user with the same email directly after another answers 'User
\* already exists', inserts nothing, and leaves exactly one user with that
\* email.
C5_SecondCreateInsertsNothing ==
  [][last'.route = "user"
       => LET e == last'.email IN
          /\ UsersOf(users, e) = {}
               => /\ users' = Append(users, NewUser(e))
                  /\ last'.message = "insertResult"
          /\ (last.route = "user" /\ last.email = e)
               => /\ last'.message = "User already exists"
                  /\ users' = users
                  /\ Cardinality(UsersOf(users', e)) = 1]_vars

\* the second of two POST /user in succession with the same email
C5_Witness ==
  /\ last.route = "user"
  /\ last.repeat
  /\ last.message = "User already exists"
  /\ last.email \in Emails
  /\ Cardinality(UsersOf(users, last.email)) = 1

(***************************************************************************)
(* verifyToken, GET /my-product/:email and GET /users                      *)
(***************************************************************************)
\* POST /jwt: jwt.sign(user, process.env.SECRET_KEY, { expiresIn: '365d' })
JwtSign(payload) ==
  [email |-> payload.email, sig |-> "SECRET_KEY", expired |-> FALSE]

\* jwt.verify(token, process.env.SECRET_KEY, ...) calls back without an error
JwtVerify(token) == token.sig = "SECRET_KEY" /\ ~token.expired

\* the tokens a client can present: issued by POST /jwt for any body, signed
\* with another key, or issued and since expired
IssuedTokens == {JwtSign([email |-> e]) : e \in BodyEmails}
Tokens ==
  IssuedTokens \cup {[t EXCEPT !.sig = "other"] : t \in IssuedTokens}
               \cup {[t EXCEPT !.expired = TRUE] : t \in IssuedTokens}

\* no header, a header of one word (split(' ')[1] is undefined), or
\* 'Bearer <token>'
Headers ==
  {NoHeader, [present |-> TRUE, words |-> 1, token |-> NoToken]}
    \cup {[present |-> TRUE, words |-> 2, token |-> t] : t \in Tokens}

\* a guard that calls next() whatever jwt.verify reports
VerifyTokenIgnoresError(header) ==
  IF ~header.present
    THEN [next |-> FALSE, status |-> 401, message |-> "forbidden access",
          user |-> [email |-> Undefined]]
    ELSE [next |-> TRUE, status |-> 0, message |-> "",
          user |-> [email |-> header.token.email]]

\* lines 14-28: whether next() is called, and otherwise the response; `user`
\* is req.user
VerifyToken(header) ==
  IF ~header.present
    THEN [next |-> FALSE, status |-> 401, message |-> "forbidden access",
          user |-> [email |-> Undefined]]
    ELSE LET token == IF header.words >= 2 THEN header.token ELSE NoToken IN
         IF ~JwtVerify(token)
           THEN [next |-> FALSE, status |-> 401, message |-> "forbidden access",
                 user |-> [email |-> Undefined]]
           ELSE [next |-> TRUE, status |-> 0, message |-> "",
                 user |-> [email |-> token.email]]

\* productsColl.find({ addedBy: email }).toArray(), as the ids found
FindByOwner(coll, email) ==
  {i \in ObjectIds : ~IsNull(coll[i]) /\ "addedBy" \in coll[i].has
                     /\ coll[i].addedBy = email}

Answer(route, email, header, status, message, sent, calls) ==
  [Done(route, UnknownId, email, status, message, NoDoc, NoDoc, calls)
     EXCEPT !.header = header, !.sent = sent]

GetMyProduct(header, email) ==
  /\ LET guard == VerifyToken(header) IN
     IF ~guard.next
       THEN last' = Answer("my-product", email, header, guard.status,
                           guard.message, {}, <<>>)
       ELSE LET decodedEmail == guard.user.email IN
            IF email # decodedEmail
              THEN last' = Answer("my-product", email, header, 401,
                                  "Unauthorize access", {}, <<>>)
              ELSE last' = Answer("my-product", email, header, 200, "products",
                                  FindByOwner(products, email), <<"find">>)
  /\ UNCHANGED <<products, nextId, users, reviews, req, started>>

GetUsers(header) ==
  /\ LET guard == VerifyToken(header) IN
     IF ~guard.next
       THEN last' = Answer("users", Undefined, header, guard.status,
                           guard.message, {}, <<>>)
       ELSE last' = Answer("users", Undefined, header, 200, "userAll", {},
                           <<"find">>)
  /\ UNCHANGED <<products, nextId, users, reviews, req, started>>

NextAuth ==
  \/ \E body \in ProductBodies : AddProduct(body)
  \/ \E email \in BodyEmails : CreateUser(email)
  \/ \E header \in Headers, email \in Emails : GetMyProduct(header, email)
  \/ \E header \in Headers : GetUsers(header)

SpecAuth == Init /\ [][NextAuth]_vars

\* the request carries 'Bearer <token>' with a token jwt.verify accepts
Authenticated(header) ==
  header.present /\ header.words = 2 /\ JwtVerify(header.token)

\* C6: on GET /my-product/:email and GET /users a request with no
\* Authorization header, or with a token that fails verification, is answered
\* 401 and the handler issues no store query; on GET /my-product/:email a
\* verified token whose email differs from :email is answered 401 and no
\* product is sent.
C6_AuthGate ==
  last.route \in {"my-product", "users"} =>
    /\ ~Authenticated(last.header)
         => last.status = 401 /\ last.calls = <<>> /\ last.sent = {}
    /\ (/\ last.route = "my-product"
        /\ Authenticated(last.header)
        /\ last.header.token.email # last.email)
         => last.status = 401 /\ last.calls = <<>> /\ last.sent = {}

\* a verified token of another user asks for the products of an owner who
\* has one stored
C6_Witness ==
  /\ last.route = "my-product"
  /\ Authenticated(last.header)
  /\ last.header.token.email \in Emails \ {last.email}
  /\ FindByOwner(products, last.email) # {}
  /\ last.status = 401

(***************************************************************************)
(* Requests handled concurrently.  Between two awaited store calls of one  *)
(* handler the store calls of other handlers may run; each store call is   *)
(* atomic.  req[c].pc names the store call client c's handler awaits next. *)
(***************************************************************************)
Responded(status, message) ==
  [pc |-> "done", route |-> "none", id |-> UnknownId, email |-> Undefined,
   updateDoc |-> <<>>, status |-> status, message |-> message]

CanStart(c) == req[c].pc \in {"idle", "done"} /\ started < MaxRequests

\* PATCH /product/upvote/:id, lines 134-153: findOne and the choice of updateDoc
UpvoteFind(c, id, email) ==
  /\ CanStart(c)
  /\ started' = started + 1
  /\ IF id = MalformedId
       THEN req' = [req EXCEPT ![c] = Responded(500, "Failed to upvote product")]
       ELSE LET product == FindOne(products, id) IN
            IF Throws(product, "likedUsers")
              THEN req' = [req EXCEPT ![c] =
                             Responded(500, "Failed to upvote product")]
              ELSE req' = [req EXCEPT ![c] =
                             [pc |-> "updateOne", route |-> "upvote", id |-> id,
                              email |-> email,
                              updateDoc |-> UpvoteUpdateDoc(product, email),
                              status |-> 0, message |-> ""]]
  /\ UNCHANGED <<products, nextId, users, reviews, last>>

\* lines 155-159: updateOne with upsert, and the modifiedCount test
UpvoteUpdate(c) ==
  /\ req[c].pc = "updateOne"
  /\ req[c].route = "upvote"
  /\ LET result == UpdateOne(products, req[c].id, req[c].updateDoc, TRUE) IN
     /\ products' = result.coll
     /\ req' = [req EXCEPT ![c] =
                  IF result.modifiedCount = 0
                    THEN Responded(500, "Failed to update vote")
                    ELSE [req[c] EXCEPT !.pc = "findOne", !.updateDoc = <<>>]]
  /\ UNCHANGED <<nextId, users, reviews, last, started>>

\* lines 161-162: the second findOne and the response
UpvoteRespond(c) ==
  /\ req[c].pc = "findOne"
  /\ req[c].route = "upvote"
  /\ req' = [req EXCEPT ![c] = Responded(200, "Vote updated")]
  /\ UNCHANGED <<products, nextId, users, reviews, last, started>>

RaceBodies ==
  {b \in ProductBodies : ~MissingRequired(b) /\ b.userEmail = "a@x.com"}

NextVoteRace ==
  \/ \E body \in RaceBodies : AddProduct(body)
  \/ \E id \in RequestIds : DeleteProduct(id)
  \/ \E c \in Clients, id \in RequestIds, email \in Emails : UpvoteFind(c, id, email)
  \/ \E c \in Clients : UpvoteUpdate(c)
  \/ \E c \in Clients : UpvoteRespond(c)

SpecVoteRace == Init /\ [][NextVoteRace]_vars

\* no handler is between two of its store calls
Quiescent == \A c \in Clients : req[c].pc \in {"idle", "done"}

\* C2: whatever the interleaving of the findOne and updateOne steps of
\* concurrently handled upvotes of one product, once all requests have
\* completed the product is as after some serial order of them: vote equals
\* the number of entries of likedUsers and is not negative.
C2_UpvoteAtomic ==
  Quiescent =>
    \A i \in Added :
      products[i].vote = Len(products[i].likedUsers) /\ products[i].vote >= 0

\* POST /user, lines 241-245: findOne
CreateUserFind(c, email) ==
  /\ CanStart(c)
  /\ started' = started + 1
  /\ LET isUserExist == FindUser(users, email) IN
     req' = [req EXCEPT ![c] =
               IF isUserExist.stored
                 THEN Responded(200, "User already exists")
                 ELSE [pc |-> "insertOne", route |-> "user", id |-> UnknownId,
                       email |-> email, updateDoc |-> <<>>, status |-> 0,
                       message |-> ""]]
  /\ UNCHANGED <<products, nextId, users, reviews, last>>

\* lines 248-249: insertOne
CreateUserInsert(c) ==
  /\ req[c].pc = "insertOne"
  /\ req[c].route = "user"
  /\ users' = Append(users, NewUser(req[c].email))
  /\ req' = [req EXCEPT ![c] = Responded(200, "insertResult")]
  /\ UNCHANGED <<products, nextId, reviews, last, started>>

NextUsersRace ==
  \/ \E c \in Clients, email \in Emails : CreateUserFind(c, email)
  \/ \E c \in Clients : CreateUserInsert(c)
  \/ \E email \in Emails : VerifyUser(email)
  \/ \E email \in Emails, role \in Roles : SetRole(email, role)

SpecUsersRace == Init /\ [][NextUsersRace]_vars

\* C10: in every reachable state of concurrently handled POST /user,
\* PATCH /user/verify/:email and PATCH /users/:email/role requests, the users
\* collection holds at most one document per email.
C10_OneUserPerEmail ==
  \A e \in BodyEmails : Cardinality(UsersOf(users, e)) <= 1

(***************************************************************************)
(* Every handler above.  The handlers of one collection never read or      *)
(* write another (GET /my-product only reads products), so each property   *)
(* is checked under the specification of the handlers of its collection.   *)
(***************************************************************************)
Next ==
  \/ NextToggle
  \/ NextModeration
  \/ NextReviews
  \/ NextUsers
  \/ NextAuth
  \/ NextVoteRace
  \/ NextUsersRace
  \/ NextLifecycle
  \/ NextLikeOnce

Spec == Init /\ [][Next]_vars

=============================================================================
